---- MODULE Spec2Model ----
(***************************************************************************)
(* Storefront core of the IA-VOICE repository: the catalog listing with    *)
(* cursor pagination (getAllItems / getItemsByCategory) and the cart /     *)
(* checkout life cycle of the "checkouts" collection, as driven by the     *)
(* item-detail page, the cart page, the checkout page and the admin        *)
(* orders page.                                                            *)
(*                                                                         *)
(* Conventions.  Document ids are positive integers; the store returns the *)
(* documents of an unordered query by ascending id (Firestore orders by    *)
(* __name__).  Timestamps are integers: an ISO-8601 string written by      *)
(* new Date().toISOString() is represented by its instant, so that the     *)
(* lexical order of the strings and the order of the parsed instants       *)
(* coincide.  A missing document / null reference is 0 or NoDoc.           *)
(***************************************************************************)
EXTENDS Integers, Sequences, FiniteSets, TLC

\* ------------------------------------------------------------------ bounds
MaxItems == 3       \* catalog size of the listing scenarios
MaxKey == 2         \* item prices and createdAt instants range over 1..MaxKey
MaxPageSize == 2    \* limitCount ranges over 1..MaxPageSize
MaxCheckouts == 2   \* documents ever added to the "checkouts" collection
MaxQuantity == 2    \* quantities a selector is driven up to
MaxClock == 1       \* the clock runs over 0..MaxClock
MaxDay == 1         \* calendar dates run over 0..MaxDay
MaxNameLen == 2     \* item names and search strings hold 1..MaxNameLen characters
MaxPage == 3        \* items page: currentPage is driven up to MaxPage
MaxInFlight == 3    \* items page: listing requests in flight at one time
MaxShown == 4       \* items page: clicks are made while at most MaxShown items are displayed

ItemIds    == 1..MaxItems
Categories == {"c1", "c2"}
SortKeys   == {"newest", "price_asc", "price_desc"}
NoCategory == "none"     \* categoryId absent (null / undefined)
NoCursor   == 0          \* lastVisible absent (null)

VARIABLES
    catalog,      \* the "items" collection: id -> [price, createdAt, category_id]
    lCategory,    \* listing scenario: categoryId argument
    lSortBy,      \* listing scenario: sortBy argument
    lPageSize,    \* listing scenario: limitCount argument
    lCursor,      \* cursor returned by the last call (NoCursor before the first)
    lPage,        \* items of the last returned page
    lAcc,         \* concatenation of the pages returned so far
    lCalls,       \* number of calls made
    lDone,        \* TRUE once a call returned no cursor
    checkouts,    \* the "checkouts" collection: existing id -> Checkout document
    nextId,       \* the id addDoc gives the next document (ids are never reused)
    now,          \* the wall clock read by new Date()
    page,         \* per session: the page that is mounted
    detailItem,   \* item page: the item shown (params.id)
    quantity,     \* item page: the quantity selector state
    cartItems,    \* cart page / checkout page: the cartItems state
    batch,        \* per session: state of the Promise.all batch of the mounted page
    awaiting,     \* per session: ids whose update is in flight and awaited by the batch
    orphans,      \* updates still in flight whose batch has already rejected
    adminOrders,  \* admin orders page: the orders state, as [id, is_done] rows
    orders,       \* per session, profile page: the orders state (derived orders)
    svc,          \* the service call in progress or last made, as seen by its caller
    itemNames,    \* the name field of the "items" collection: id -> name
    itemsPage,    \* items listing page: the component state and its fetches
    auth,         \* AuthProvider: the context state and its callbacks in progress
    categories    \* admin categories page: the collection and deletes in progress

listVars == <<lCategory, lSortBy, lPageSize, lCursor, lPage, lAcc, lCalls, lDone>>
cartVars == <<checkouts, nextId, now, page, detailItem, quantity, cartItems, batch,
              awaiting, orphans>>
serviceVars == <<svc, itemNames>>
shellVars == <<itemsPage, auth, categories>>
vars == <<catalog, listVars, cartVars, adminOrders, orders, serviceVars, shellVars>>
\* what the storefront pages neither read for writing nor write
navFrame == <<catalog, listVars, adminOrders, serviceVars, shellVars>>
frame == <<navFrame, orders>>

\* ------------------------------------------------------- sequence helpers
Last(s) == s[Len(s)]

Range(s) == {s[k] : k \in 1..Len(s)}

\* Array.prototype.slice(from, to) with 0-based, end-exclusive indices
Slice(s, from, to) ==
    LET hi == IF to > Len(s) THEN Len(s) ELSE to
    IN  IF from >= hi THEN << >> ELSE SubSeq(s, from + 1, hi)

\* Array.prototype.findIndex(x => x.id === id): 0-based index or -1
RECURSIVE FindIndexFrom(_, _, _)
FindIndexFrom(s, id, k) ==
    IF k > Len(s) THEN -1
    ELSE IF s[k] = id THEN k - 1
    ELSE FindIndexFrom(s, id, k + 1)

FindIndex(s, id) == FindIndexFrom(s, id, 1)

\* the ids of a set in ascending order (snapshot order of an unordered query)
RECURSIVE AscendingSeq(_)
AscendingSeq(S) ==
    IF S = {} THEN << >>
    ELSE LET m == CHOOSE x \in S : \A y \in S : x <= y
         IN  <<m>> \o AscendingSeq(S \ {m})

\* ------------------------------------------------ getItemsByCategory sort
\* comparator handed to items.sort(...) for each sortBy
CompareOldestFirst(sortBy, a, b) ==
    IF sortBy = "price_asc" THEN catalog[a].price - catalog[b].price
    ELSE IF sortBy = "price_desc" THEN catalog[b].price - catalog[a].price
    ELSE catalog[a].createdAt - catalog[b].createdAt

Compare(sortBy, a, b) ==
    IF sortBy = "price_asc" THEN catalog[a].price - catalog[b].price
    ELSE IF sortBy = "price_desc" THEN catalog[b].price - catalog[a].price
    ELSE catalog[b].createdAt - catalog[a].createdAt

\* insert x behind every element that does not compare greater than it
RECURSIVE InsertStable(_, _, _)
InsertStable(sorted, x, sortBy) ==
    IF sorted = << >> THEN <<x>>
    ELSE IF Compare(sortBy, Last(sorted), x) <= 0 THEN Append(sorted, x)
    ELSE Append(InsertStable(SubSeq(sorted, 1, Len(sorted) - 1), x, sortBy), Last(sorted))

\* Array.prototype.sort with a comparator: a stable sort (ES2019)
RECURSIVE SortItems(_, _)
SortItems(s, sortBy) ==
    IF s = << >> THEN << >>
    ELSE InsertStable(SortItems(SubSeq(s, 1, Len(s) - 1), sortBy), Last(s), sortBy)

\* where("category_id", "==", categoryId), in snapshot order
CategoryDocs(categoryId) ==
    AscendingSeq({i \in ItemIds : catalog[i].category_id = categoryId})

GetItemsByCategoryIndexOff(categoryId, sortBy, limitCount, lastVisible) ==
    LET items == SortItems(CategoryDocs(categoryId), sortBy)
        lastVisibleIndex == IF lastVisible # NoCursor THEN FindIndex(items, lastVisible) ELSE -1
        startIndex == IF lastVisibleIndex # -1 THEN lastVisibleIndex ELSE 0
        paginatedItems == Slice(items, startIndex, startIndex + limitCount)
    IN  [items |-> paginatedItems,
         lastVisible |-> IF Len(paginatedItems) > 0 THEN Last(paginatedItems) ELSE NoCursor]

GetItemsByCategory(categoryId, sortBy, limitCount, lastVisible) ==
    LET items == SortItems(CategoryDocs(categoryId), sortBy)
        lastVisibleIndex == IF lastVisible # NoCursor THEN FindIndex(items, lastVisible) ELSE -1
        startIndex == IF lastVisibleIndex # -1 THEN lastVisibleIndex + 1 ELSE 0
        paginatedItems == Slice(items, startIndex, startIndex + limitCount)
    IN  [items |-> paginatedItems,
         lastVisible |-> IF Len(paginatedItems) > 0 THEN Last(paginatedItems) ELSE NoCursor]

\* ------------------------------------------------------- getAllItems query
\* orderBy(field, direction): the store orders by the field and breaks ties
\* by document id in the direction of the last orderBy clause
OrderField(sortBy, i) ==
    IF sortBy = "newest" THEN catalog[i].createdAt ELSE catalog[i].price

Descending(sortBy) == sortBy # "price_asc"

\* TRUE iff document a comes strictly before document b in the query order
QueryBefore(sortBy, a, b) ==
    LET ka == OrderField(sortBy, a)
        kb == OrderField(sortBy, b)
    IN  IF Descending(sortBy)
        THEN ka > kb \/ (ka = kb /\ a > b)
        ELSE ka < kb \/ (ka = kb /\ a < b)

RECURSIVE QueryOrder(_, _)
QueryOrder(S, sortBy) ==
    IF S = {} THEN << >>
    ELSE LET m == CHOOSE x \in S : \A y \in S \ {x} : QueryBefore(sortBy, x, y)
         IN  <<m>> \o QueryOrder(S \ {m}, sortBy)

\* query(collection("items"), orderBy, startAfter(lastVisible)?, limit)
OrderedQuery(sortBy, limitCount, lastVisible) ==
    LET after == IF lastVisible = NoCursor THEN ItemIds
                 ELSE {i \in ItemIds : QueryBefore(sortBy, lastVisible, i)}
    IN  Slice(QueryOrder(after, sortBy), 0, limitCount)

GetAllItemsShortPageEnds(categoryId, sortBy, limitCount, lastVisible) ==
    LET docs == IF categoryId # NoCategory
                THEN GetItemsByCategory(categoryId, sortBy, limitCount, lastVisible).items
                ELSE OrderedQuery(sortBy, limitCount, lastVisible)
    IN  [items |-> docs,
         lastVisible |-> IF Len(docs) = limitCount THEN Last(docs) ELSE NoCursor]

GetAllItems(categoryId, sortBy, limitCount, lastVisible) ==
    IF categoryId # NoCategory
    THEN GetItemsByCategory(categoryId, sortBy, limitCount, lastVisible)
    ELSE LET docs == OrderedQuery(sortBy, limitCount, lastVisible)
         IN  [items |-> docs,
              lastVisible |-> IF Len(docs) > 0 THEN Last(docs) ELSE NoCursor]

\* -------------------------------------------------- listing scenario (C1, C6)
\* The item set is arbitrary but fixed during a scenario.  Only the field the
\* requested order reads is varied; the other one is the same for all items.
InitList ==
    /\ lCategory \in Categories \cup {NoCategory}
    /\ lSortBy \in SortKeys
    /\ lPageSize \in 1..MaxPageSize
    /\ \E keys \in [ItemIds -> 1..MaxKey], cats \in [ItemIds -> Categories] :
          catalog = [i \in ItemIds |->
                       [price |-> IF lSortBy = "newest" THEN 1 ELSE keys[i],
                        createdAt |-> IF lSortBy = "newest" THEN keys[i] ELSE 1,
                        category_id |-> cats[i]]]
    /\ lCursor = NoCursor
    /\ lPage = << >>
    /\ lAcc = << >>
    /\ lCalls = 0
    /\ lDone = FALSE

\* one call of listItems with the cursor of the previous call
ListNextPage ==
    /\ ~lDone
    /\ lCalls <= MaxItems
    /\ LET result == GetAllItems(lCategory, lSortBy, lPageSize, lCursor)
       IN  /\ lPage' = result.items
           /\ lAcc' = lAcc \o result.items
           /\ lCursor' = result.lastVisible
           /\ lDone' = (result.lastVisible = NoCursor)
    /\ lCalls' = lCalls + 1
    /\ UNCHANGED <<catalog, lCategory, lSortBy, lPageSize, cartVars, adminOrders, orders,
                   serviceVars, shellVars>>

\* ---------------------------------------------- "checkouts" collection
Users       == {"u1", "u2"}
Sessions    == {"s1", "s2", "s3"}
\* the user each session is logged in as: s1 and s2 are two sessions of u1,
\* s3 is a session of u2
SessionUser == [s \in Sessions |-> IF s = "s3" THEN "u2" ELSE "u1"]
CartItemIds == {1, 2}            \* the items the storefront pages are opened for
CheckoutIds == 1..MaxCheckouts

\* store operations on a collection held as a function "existing id -> document"
SetDoc(store, id, document) == [j \in DOMAIN store \cup {id} |->
                                   IF j = id THEN document ELSE store[j]]

DeleteDoc(store, id) == [j \in DOMAIN store \ {id} |-> store[j]]

\* addToCart: addDoc of a new document; the store picks the id
AddToCartMerged(store, id, userId, itemId, qty, t) ==
    IF \E j \in DOMAIN store : store[j].user_id = userId /\ store[j].item_id = itemId
                                 /\ ~store[j].is_done
    THEN LET j == CHOOSE j \in DOMAIN store : store[j].user_id = userId
                        /\ store[j].item_id = itemId /\ ~store[j].is_done
         IN  [store EXCEPT ![j].quantity = qty, ![j].updatedAt = t]
    ELSE SetDoc(store, id, [user_id |-> userId, item_id |-> itemId, quantity |-> qty,
                            is_done |-> FALSE, last_step |-> "added_to_cart",
                            reason |-> "", createdAt |-> t, updatedAt |-> t])

AddToCart(store, id, userId, itemId, qty, t) ==
    SetDoc(store, id, [user_id |-> userId, item_id |-> itemId, quantity |-> qty,
                       is_done |-> FALSE, last_step |-> "added_to_cart",
                       reason |-> "", createdAt |-> t, updatedAt |-> t])

UpdateCartItemQuantityRestarts(store, checkoutId, qty, t) ==
    [store EXCEPT ![checkoutId].quantity = qty, ![checkoutId].updatedAt = t,
                  ![checkoutId].last_step = "added_to_cart"]

UpdateCartItemQuantity(store, checkoutId, qty, t) ==
    [store EXCEPT ![checkoutId].quantity = qty, ![checkoutId].updatedAt = t]

RemoveFromCartEmptiesCart(store, checkoutId) ==
    [j \in {k \in DOMAIN store : store[k].user_id # store[checkoutId].user_id} |-> store[j]]

RemoveFromCart(store, checkoutId) == DeleteDoc(store, checkoutId)

UpdateCheckoutStepReopens(store, checkoutId, lastStep, t) ==
    [store EXCEPT ![checkoutId].last_step = lastStep, ![checkoutId].is_done = FALSE,
                  ![checkoutId].updatedAt = t]

UpdateCheckoutStepAdvances(store, checkoutId, lastStep, t) ==
    [store EXCEPT ![checkoutId].last_step =
                      IF store[checkoutId].last_step = lastStep THEN "completed" ELSE lastStep,
                  ![checkoutId].updatedAt = t]

UpdateCheckoutStep(store, checkoutId, lastStep, t) ==
    [store EXCEPT ![checkoutId].last_step = lastStep, ![checkoutId].updatedAt = t]

\* the write of the checkout page's onSubmit (the same fields as completeCheckout)
CompleteWrite(store, checkoutId, t) ==
    [store EXCEPT ![checkoutId].is_done = TRUE,
                  ![checkoutId].last_step = "completed",
                  ![checkoutId].updatedAt = t]

\* handleUpdateOrderStatus: the write of the admin orders page
AdminStatusWrite(store, orderId, isDone, t) ==
    [store EXCEPT ![orderId].is_done = isDone,
                  ![orderId].last_step = IF isDone THEN "completed" ELSE "processing",
                  ![orderId].updatedAt = t]

\* getCartItems: where user_id == userId and is_done == false
GetCartItemsOfAnyone(store, userId) ==
    {id \in DOMAIN store : ~store[id].is_done}

GetCartItems(store, userId) ==
    {id \in DOMAIN store : store[id].user_id = userId /\ ~store[id].is_done}

\* profile page fetchOrders: where user_id == userId and is_done == true
CompletedOrders(store, userId) ==
    {id \in DOMAIN store : store[id].user_id = userId /\ store[id].is_done}

\* checkout page fetchCartItems: ... and last_step == "payment"
PaymentCheckouts(store, userId) ==
    {id \in GetCartItems(store, userId) : store[id].last_step = "payment"}

\* the join with the items collection: line items whose item is missing are dropped
WithDetails(store, ids) ==
    {[id |-> id, item_id |-> store[id].item_id,
      quantity |-> IF store[id].quantity = 0 THEN 1 ELSE store[id].quantity,
      price |-> catalog[store[id].item_id].price] :
        id \in {j \in ids : store[j].item_id \in DOMAIN catalog}}

ViewIds(view) == {c.id : c \in view}

\* the write one request of the mounted page's batch performs
BatchWrite(store, op, id, t) ==
    IF op = "payment" THEN UpdateCheckoutStep(store, id, "payment", t)
    ELSE CompleteWrite(store, id, t)

BatchOp(s) == IF page[s] = "cart" THEN "payment" ELSE "complete"

\* ------------------------------------------------------------ item page
OpenItemPage(s, i) ==
    /\ batch[s] # "running"
    /\ i \in DOMAIN catalog
    /\ page' = [page EXCEPT ![s] = "detail"]
    /\ detailItem' = [detailItem EXCEPT ![s] = i]
    /\ quantity' = [quantity EXCEPT ![s] = 1]
    /\ cartItems' = [cartItems EXCEPT ![s] = {}]
    /\ batch' = [batch EXCEPT ![s] = "idle"]
    /\ UNCHANGED <<checkouts, nextId, now, awaiting, orphans>>
    /\ orders' = [orders EXCEPT ![s] = {}]
    /\ UNCHANGED navFrame

\* handleQuantityChange of the item page
DetailQuantityGuard(value) == value >= 1

DetailQuantityChange(s, value) ==
    /\ page[s] = "detail"
    /\ value <= MaxQuantity
    /\ DetailQuantityGuard(value)
    /\ quantity' = [quantity EXCEPT ![s] = value]
    /\ UNCHANGED <<checkouts, nextId, now, page, detailItem, cartItems, batch,
                   awaiting, orphans>>
    /\ UNCHANGED frame

\* handleAddToCart, the addDoc request succeeding (a failed request changes nothing)
HandleAddToCart(s) ==
    /\ page[s] = "detail"
    /\ nextId <= MaxCheckouts
    /\ checkouts' = AddToCart(checkouts, nextId, SessionUser[s], detailItem[s],
                              quantity[s], now)
    /\ nextId' = nextId + 1
    /\ UNCHANGED <<now, page, detailItem, quantity, cartItems, batch, awaiting, orphans>>
    /\ UNCHANGED frame

\* ------------------------------------------------------------ cart page
\* the cart page is opened (or reloaded) and its fetchCartItems completes
OpenCartPage(s) ==
    /\ batch[s] # "running"
    /\ page' = [page EXCEPT ![s] = "cart"]
    /\ detailItem' = [detailItem EXCEPT ![s] = 0]
    /\ quantity' = [quantity EXCEPT ![s] = 1]
    /\ cartItems' = [cartItems EXCEPT ![s] =
                       WithDetails(checkouts, GetCartItems(checkouts, SessionUser[s]))]
    /\ batch' = [batch EXCEPT ![s] = "idle"]
    /\ UNCHANGED <<checkouts, nextId, now, awaiting, orphans>>
    /\ orders' = [orders EXCEPT ![s] = {}]
    /\ UNCHANGED navFrame

\* handleQuantityChange of the cart page; updateDoc fails on a missing document
CartQuantityGuardLoose(newQuantity) == newQuantity >= 0

CartQuantityGuard(newQuantity) == newQuantity >= 1

CartQuantityChange(s, c, newQuantity) ==
    /\ page[s] = "cart"
    /\ batch[s] # "running"
    /\ c \in cartItems[s]
    /\ newQuantity <= MaxQuantity
    /\ CartQuantityGuard(newQuantity)
    /\ c.id \in DOMAIN checkouts
    /\ checkouts' = UpdateCartItemQuantity(checkouts, c.id, newQuantity, now)
    /\ cartItems' = [cartItems EXCEPT ![s] =
                       {IF d.id = c.id THEN [d EXCEPT !.quantity = newQuantity] ELSE d :
                          d \in cartItems[s]}]
    /\ UNCHANGED <<nextId, now, page, detailItem, quantity, batch, awaiting, orphans>>
    /\ UNCHANGED frame

\* handleRemoveItem; deleteDoc succeeds whether or not the document exists
HandleRemoveItem(s, c) ==
    /\ page[s] = "cart"
    /\ batch[s] # "running"
    /\ c \in cartItems[s]
    /\ checkouts' = RemoveFromCart(checkouts, c.id)
    /\ cartItems' = [cartItems EXCEPT ![s] = {d \in cartItems[s] : d.id # c.id}]
    /\ UNCHANGED <<nextId, now, page, detailItem, quantity, batch, awaiting, orphans>>
    /\ UNCHANGED frame

\* handleProceedToCheckout up to its await: every updateCheckoutStep is issued
HandleProceedToCheckout(s) ==
    /\ page[s] = "cart"
    /\ batch[s] # "running"
    /\ cartItems[s] # {}
    /\ batch' = [batch EXCEPT ![s] = "running"]
    /\ awaiting' = [awaiting EXCEPT ![s] = ViewIds(cartItems[s])]
    /\ UNCHANGED <<checkouts, nextId, now, page, detailItem, quantity, cartItems, orphans>>
    /\ UNCHANGED frame

\* --------------------------------------------------------- checkout page
\* the checkout page is opened (by the router after a proceed-to-checkout, or
\* directly) and its fetchCartItems completes; an empty snapshot redirects to
\* /cart, whose fetchCartItems then runs
OpenCheckoutPage(s) ==
    /\ batch[s] # "running"
    /\ LET found == PaymentCheckouts(checkouts, SessionUser[s])
       IN  IF found = {}
           THEN /\ page' = [page EXCEPT ![s] = "cart"]
                /\ cartItems' = [cartItems EXCEPT ![s] =
                       WithDetails(checkouts, GetCartItems(checkouts, SessionUser[s]))]
           ELSE /\ page' = [page EXCEPT ![s] = "checkout"]
                /\ cartItems' = [cartItems EXCEPT ![s] = WithDetails(checkouts, found)]
    /\ detailItem' = [detailItem EXCEPT ![s] = 0]
    /\ quantity' = [quantity EXCEPT ![s] = 1]
    /\ batch' = [batch EXCEPT ![s] = "idle"]
    /\ UNCHANGED <<checkouts, nextId, now, awaiting, orphans>>
    /\ orders' = [orders EXCEPT ![s] = {}]
    /\ UNCHANGED navFrame

\* onSubmit up to its second await: after the payment pause every update is issued
OnSubmit(s) ==
    /\ page[s] = "checkout"
    /\ cartItems[s] # {}
    /\ batch[s] \in {"idle", "failed"}
    /\ batch' = [batch EXCEPT ![s] = "running"]
    /\ awaiting' = [awaiting EXCEPT ![s] = ViewIds(cartItems[s])]
    /\ UNCHANGED <<checkouts, nextId, now, page, detailItem, quantity, cartItems, orphans>>
    /\ UNCHANGED frame

\* ------------------------------------------- the requests of a batch
\* what the handler does once Promise.all has resolved
BatchResolved(s) ==
    IF page[s] = "cart"
    THEN /\ page' = [page EXCEPT ![s] = "checkout_pushed"]
         /\ cartItems' = [cartItems EXCEPT ![s] = {}]
         /\ batch' = [batch EXCEPT ![s] = "idle"]
    ELSE /\ batch' = [batch EXCEPT ![s] = "success"]
         /\ UNCHANGED <<page, cartItems>>

\* what the handler does once Promise.all has rejected (the catch block)
BatchRejectedGoesOn(s) ==
    IF page[s] = "cart"
    THEN /\ page' = [page EXCEPT ![s] = "checkout_pushed"]
         /\ cartItems' = [cartItems EXCEPT ![s] = {}]
         /\ batch' = [batch EXCEPT ![s] = "failed"]
    ELSE /\ batch' = [batch EXCEPT ![s] = "success"]
         /\ UNCHANGED <<page, cartItems>>

BatchRejected(s) ==
    /\ batch' = [batch EXCEPT ![s] = "failed"]
    /\ UNCHANGED <<page, cartItems>>

\* one awaited update is applied by the store
UpdateResolves(s, id) ==
    /\ batch[s] = "running"
    /\ id \in awaiting[s]
    /\ id \in DOMAIN checkouts
    /\ checkouts' = BatchWrite(checkouts, BatchOp(s), id, now)
    /\ awaiting' = [awaiting EXCEPT ![s] = awaiting[s] \ {id}]
    /\ IF awaiting[s] = {id}
       THEN BatchResolved(s)
       ELSE UNCHANGED <<page, cartItems, batch>>
    /\ UNCHANGED <<nextId, now, detailItem, quantity, orphans>>
    /\ UNCHANGED frame

\* one awaited update fails (store error, or the document no longer exists):
\* Promise.all rejects at once, the other requests stay in flight
UpdateRejects(s, id) ==
    /\ batch[s] = "running"
    /\ id \in awaiting[s]
    /\ BatchRejected(s)
    /\ awaiting' = [awaiting EXCEPT ![s] = {}]
    /\ orphans' = orphans \cup {[id |-> j, op |-> BatchOp(s)] : j \in awaiting[s] \ {id}}
    /\ UNCHANGED <<checkouts, nextId, now, detailItem, quantity>>
    /\ UNCHANGED frame

\* an update of a batch that has already rejected is applied by the store
OrphanResolves(o) ==
    /\ o \in orphans
    /\ o.id \in DOMAIN checkouts
    /\ checkouts' = BatchWrite(checkouts, o.op, o.id, now)
    /\ orphans' = orphans \ {o}
    /\ UNCHANGED <<nextId, now, page, detailItem, quantity, cartItems, batch, awaiting>>
    /\ UNCHANGED frame

\* an update of a batch that has already rejected fails as well
OrphanRejects(o) ==
    /\ o \in orphans
    /\ orphans' = orphans \ {o}
    /\ UNCHANGED <<checkouts, nextId, now, page, detailItem, quantity, cartItems, batch,
                   awaiting>>
    /\ UNCHANGED frame

Tick ==
    /\ now < MaxClock
    /\ now' = now + 1
    /\ UNCHANGED <<checkouts, nextId, page, detailItem, quantity, cartItems, batch,
                   awaiting, orphans>>
    /\ UNCHANGED frame

\* ------------------------------------------------------ admin orders page
\* fetchOrders with the default status filter "all"
AdminFetchOrders ==
    /\ adminOrders' = {[id |-> id, is_done |-> checkouts[id].is_done] : id \in DOMAIN checkouts}
    /\ adminOrders' # adminOrders
    /\ UNCHANGED <<catalog, listVars, cartVars, orders, serviceVars, shellVars>>

\* handleUpdateOrderStatus from the row menu: "Mark as Pending" on a row shown
\* as done, "Mark as Completed" otherwise; on success the list is fetched again
HandleUpdateOrderStatus(o) ==
    /\ o \in adminOrders
    /\ o.id \in DOMAIN checkouts
    /\ checkouts' = AdminStatusWrite(checkouts, o.id, ~o.is_done, now)
    /\ adminOrders' = {[id |-> id, is_done |-> checkouts'[id].is_done] : id \in DOMAIN checkouts'}
    /\ UNCHANGED <<catalog, listVars, nextId, now, page, detailItem, quantity, cartItems,
                   batch, awaiting, orphans, orders, serviceVars, shellVars>>

\* ----------------------------------------------------------- profile page
TicksPerDay == 2     \* instants of the clock per calendar date

\* new Date(updatedAt).toLocaleDateString(): the calendar date of an instant
DateOf(t) == t \div TicksPerDay

\* the item lookups of one group of checkouts, in snapshot order; a checkout
\* whose item does not exist yields null and is filtered out
RECURSIVE OrderItems(_, _)
OrderItems(store, ids) ==
    IF ids = << >> THEN << >>
    ELSE LET checkout == store[Head(ids)]
             rest == OrderItems(store, Tail(ids))
         IN  IF checkout.item_id \in DOMAIN catalog
             THEN <<[id |-> checkout.item_id,
                     price |-> catalog[checkout.item_id].price,
                     quantity |-> IF checkout.quantity = 0 THEN 1
                                  ELSE checkout.quantity]>> \o rest
             ELSE rest

\* validItems.reduce((sum, item) => sum + item.price * item.quantity, 0)
RECURSIVE OrderTotalOfPrices(_)
OrderTotalOfPrices(items) ==
    IF items = << >> THEN 0
    ELSE Head(items).price + OrderTotalOfPrices(Tail(items))

RECURSIVE OrderTotal(_)
OrderTotal(items) ==
    IF items = << >> THEN 0
    ELSE Head(items).price * Head(items).quantity + OrderTotal(Tail(items))

\* fetchOrders of the profile page: the completed checkouts of the user,
\* grouped by the date of updatedAt, one order per date
FetchOrders(store, userId) ==
    LET done == CompletedOrders(store, userId)
        dates == {DateOf(store[id].updatedAt) : id \in done}
    IN  {LET group == {id \in done : DateOf(store[id].updatedAt) = d}
             items == OrderItems(store, AscendingSeq(group))
         IN  [date |-> d, items |-> items, total |-> OrderTotal(items)] : d \in dates}

\* calculateTotal of the cart page and of the checkout page
RECURSIVE CalculateTotal(_)
CalculateTotal(view) ==
    IF view = {} THEN 0
    ELSE LET c == CHOOSE d \in view : \A e \in view : d.id <= e.id
         IN  c.price * c.quantity + CalculateTotal(view \ {c})

\* the requests of a page's fetch: 0 is the checkouts query, an id is the item
\* lookup made for that checkout
QueryRequest == 0

\* what a page's fetch leaves in cartItems when the requests in failing fail:
\* the awaited Promise.all rejects, the catch block runs, setCartItems is not
\* reached and the state keeps its initial value
CartFetchSkipsFailed(store, ids, failing) == WithDetails(store, ids \ failing)

CartFetchOutcome(store, ids, failing) ==
    IF failing # {} THEN {} ELSE WithDetails(store, ids)

OrdersFetchOutcome(store, userId, failing) ==
    IF failing # {} THEN {} ELSE FetchOrders(store, userId)

\* the profile page is opened and its fetchOrders completes
OpenProfilePage(s) ==
    /\ batch[s] # "running"
    /\ page' = [page EXCEPT ![s] = "profile"]
    /\ detailItem' = [detailItem EXCEPT ![s] = 0]
    /\ quantity' = [quantity EXCEPT ![s] = 1]
    /\ cartItems' = [cartItems EXCEPT ![s] = {}]
    /\ batch' = [batch EXCEPT ![s] = "idle"]
    /\ orders' = [orders EXCEPT ![s] = OrdersFetchOutcome(checkouts, SessionUser[s], {})]
    /\ UNCHANGED <<checkouts, nextId, now, awaiting, orphans>>
    /\ UNCHANGED navFrame

\* the profile page is opened and a request of its fetchOrders fails
OpenProfilePageFails(s, failing) ==
    /\ batch[s] # "running"
    /\ failing # {}
    /\ failing \subseteq CompletedOrders(checkouts, SessionUser[s]) \cup {QueryRequest}
    /\ page' = [page EXCEPT ![s] = "profile"]
    /\ detailItem' = [detailItem EXCEPT ![s] = 0]
    /\ quantity' = [quantity EXCEPT ![s] = 1]
    /\ cartItems' = [cartItems EXCEPT ![s] = {}]
    /\ batch' = [batch EXCEPT ![s] = "idle"]
    /\ orders' = [orders EXCEPT ![s] = OrdersFetchOutcome(checkouts, SessionUser[s], failing)]
    /\ UNCHANGED <<checkouts, nextId, now, awaiting, orphans>>
    /\ UNCHANGED navFrame

\* the cart page is opened and a request of its fetchCartItems fails
OpenCartPageFails(s, failing) ==
    /\ batch[s] # "running"
    /\ failing # {}
    /\ failing \subseteq GetCartItems(checkouts, SessionUser[s]) \cup {QueryRequest}
    /\ page' = [page EXCEPT ![s] = "cart"]
    /\ detailItem' = [detailItem EXCEPT ![s] = 0]
    /\ quantity' = [quantity EXCEPT ![s] = 1]
    /\ cartItems' = [cartItems EXCEPT ![s] =
           CartFetchOutcome(checkouts, GetCartItems(checkouts, SessionUser[s]), failing)]
    /\ batch' = [batch EXCEPT ![s] = "idle"]
    /\ orders' = [orders EXCEPT ![s] = {}]
    /\ UNCHANGED <<checkouts, nextId, now, awaiting, orphans>>
    /\ UNCHANGED navFrame

\* the checkout page is opened and a request of its fetchCartItems fails: the
\* query, or an item lookup made for one of the payment checkouts it found
OpenCheckoutPageFails(s, failing) ==
    /\ batch[s] # "running"
    /\ failing # {}
    /\ failing \subseteq PaymentCheckouts(checkouts, SessionUser[s]) \cup {QueryRequest}
    /\ page' = [page EXCEPT ![s] = "checkout"]
    /\ detailItem' = [detailItem EXCEPT ![s] = 0]
    /\ quantity' = [quantity EXCEPT ![s] = 1]
    /\ cartItems' = [cartItems EXCEPT ![s] =
           CartFetchOutcome(checkouts, PaymentCheckouts(checkouts, SessionUser[s]), failing)]
    /\ batch' = [batch EXCEPT ![s] = "idle"]
    /\ orders' = [orders EXCEPT ![s] = {}]
    /\ UNCHANGED <<checkouts, nextId, now, awaiting, orphans>>
    /\ UNCHANGED navFrame

\* onSubmit on a checkout page that shows no line item: Promise.all of an
\* empty list resolves at once
OnSubmitEmpty(s) ==
    /\ page[s] = "checkout"
    /\ cartItems[s] = {}
    /\ batch[s] \in {"idle", "failed"}
    /\ batch' = [batch EXCEPT ![s] = "success"]
    /\ UNCHANGED <<checkouts, nextId, now, page, detailItem, quantity, cartItems, awaiting,
                   orphans>>
    /\ UNCHANGED frame

\* midnight passes: the clock moves to the first instant of the next date
NextDay ==
    /\ DateOf(now) < MaxDay
    /\ now' = (DateOf(now) + 1) * TicksPerDay
    /\ UNCHANGED <<checkouts, nextId, page, detailItem, quantity, cartItems, batch,
                   awaiting, orphans>>
    /\ UNCHANGED frame

\* handleDeleteItem of the admin items page: refused while an active checkout
\* references the item
AdminDeleteItem(i) ==
    /\ i \in DOMAIN catalog
    /\ ~\E id \in DOMAIN checkouts : checkouts[id].item_id = i /\ ~checkouts[id].is_done
    /\ catalog' = DeleteDoc(catalog, i)
    /\ UNCHANGED <<listVars, cartVars, adminOrders, orders, serviceVars, shellVars>>

\* ------------------------------------------------------ catalog service calls
\* A string is the sequence of its code points; the store orders strings by
\* code point.  Names use three characters: 1 and 2 are two neighbouring
\* letters ("e" and "f"), 4 is a character above U+F8FF (U+F900..U+10FFFF).
HighCodePoint == 3       \* U+F8FF, the character appended to the search string
CodePoints == {1, 2, 4}

RECURSIVE StringsUpTo(_)
StringsUpTo(n) ==
    IF n = 0 THEN {<< >>}
    ELSE LET shorter == StringsUpTo(n - 1)
         IN  shorter \cup {Append(w, c) : w \in shorter, c \in CodePoints}

Names == StringsUpTo(MaxNameLen) \ {<< >>}

SeedNames == [i \in ItemIds |-> <<1>>]

\* a <= b in the store's order of strings
RECURSIVE StringLeq(_, _)
StringLeq(a, b) ==
    IF a = << >> THEN TRUE
    ELSE IF b = << >> THEN FALSE
    ELSE IF Head(a) # Head(b) THEN Head(a) < Head(b)
    ELSE StringLeq(Tail(a), Tail(b))

\* orderBy("name"): by name, documents of equal name by id
NameBefore(names, a, b) ==
    IF names[a] = names[b] THEN a < b ELSE StringLeq(names[a], names[b])

RECURSIVE NameOrder(_, _)
NameOrder(names, S) ==
    IF S = {} THEN << >>
    ELSE LET m == CHOOSE x \in S : \A y \in S \ {x} : NameBefore(names, x, y)
         IN  <<m>> \o NameOrder(names, S \ {m})

\* searchItems: orderBy("name"), where name >= q, where name <= q + U+F8FF, limit
SearchItems(names, searchQuery, limitCount) ==
    LET hits == {i \in DOMAIN names :
                   /\ StringLeq(searchQuery, names[i])
                   /\ StringLeq(names[i], Append(searchQuery, HighCodePoint))}
    IN  Slice(NameOrder(names, hits), 0, limitCount)

\* the items page, the auth provider and the admin categories page not in use
NoPage == [mounted |-> FALSE]
NoAuth == [mounted |-> FALSE]
NoCategories == [mounted |-> FALSE]

ShellIdle ==
    /\ itemsPage = NoPage
    /\ auth = NoAuth
    /\ categories = NoCategories

\* ---- one call of an exported service function, as its caller sees it
ListOps == {"getAllItems", "getItemsByCategory"}
StoreErrors == {"unavailable", "failed-precondition"}

NoCall == [op |-> "none", phase |-> "idle", request |-> "none", issued |-> 0,
           error |-> "none", reported |-> "none",
           category |-> NoCategory, sortBy |-> "newest", query |-> << >>, limit |-> 0,
           user |-> "none", item |-> 0, qty |-> 0, id |-> 0, value |-> << >>]

\* the function has been entered and its first store request is issued
Call(op) == [NoCall EXCEPT !.op = op, !.phase = "pending", !.request = "main",
                           !.issued = 1]

CallListing(op, categoryId, sortBy) ==
    /\ svc.phase # "pending"
    /\ op = "getItemsByCategory" => categoryId # NoCategory
    /\ svc' = [Call(op) EXCEPT !.category = categoryId, !.sortBy = sortBy,
                               !.limit = MaxPageSize]
    /\ UNCHANGED <<catalog, listVars, cartVars, adminOrders, orders, itemNames, shellVars>>

CallSearchItems(searchQuery, limitCount) ==
    /\ svc.phase # "pending"
    /\ svc' = [Call("searchItems") EXCEPT !.query = searchQuery, !.limit = limitCount]
    /\ UNCHANGED <<catalog, listVars, cartVars, adminOrders, orders, itemNames, shellVars>>

CallGetItemById(itemId) ==
    /\ svc.phase # "pending"
    /\ svc' = [Call("getItemById") EXCEPT !.item = itemId]
    /\ UNCHANGED <<catalog, listVars, cartVars, adminOrders, orders, itemNames, shellVars>>

CallGetCartItems(userId) ==
    /\ svc.phase # "pending"
    /\ svc' = [Call("getCartItems") EXCEPT !.user = userId]
    /\ UNCHANGED <<catalog, listVars, cartVars, adminOrders, orders, itemNames, shellVars>>

CallAddToCart(userId, itemId, qty) ==
    /\ svc.phase # "pending"
    /\ nextId <= MaxCheckouts
    /\ svc' = [Call("addToCart") EXCEPT !.user = userId, !.item = itemId, !.qty = qty]
    /\ UNCHANGED <<catalog, listVars, cartVars, adminOrders, orders, itemNames, shellVars>>

\* updateCartItemQuantity, removeFromCart, updateCheckoutStep(id, "payment")
\* and completeCheckout
CallOnCheckout(op, checkoutId, qty) ==
    /\ svc.phase # "pending"
    /\ op \in {"updateCartItemQuantity", "removeFromCart", "updateCheckoutStep",
               "completeCheckout"}
    /\ (op = "updateCartItemQuantity") = (qty # 0)
    /\ svc' = [Call(op) EXCEPT !.id = checkoutId, !.qty = qty]
    /\ UNCHANGED <<catalog, listVars, cartVars, adminOrders, orders, itemNames, shellVars>>

\* completeCheckout: the same write as the checkout page's onSubmit
CompleteCheckout(store, checkoutId, t) == CompleteWrite(store, checkoutId, t)

\* the category query of getItemsByCategory found nothing: the function goes
\* on to look the category document up, inside its own try/catch
NeedsCategoryLookup(call) ==
    /\ call.op \in ListOps
    /\ call.request = "main"
    /\ call.category # NoCategory
    /\ CategoryDocs(call.category) = << >>

\* what the function returns once its (last) request has succeeded
ReturnValue(call) ==
    IF call.op \in ListOps
        THEN GetAllItems(call.category, call.sortBy, call.limit, NoCursor).items
    ELSE IF call.op = "searchItems" THEN SearchItems(itemNames, call.query, call.limit)
    ELSE IF call.op = "getItemById"
        THEN (IF call.item \in DOMAIN catalog THEN <<call.item>> ELSE << >>)
    ELSE IF call.op = "getCartItems"
        THEN AscendingSeq(GetCartItems(checkouts, call.user))
    ELSE IF call.op = "addToCart" THEN <<nextId>>
    ELSE << >>

\* the collection after the write of the call has been applied
Written(call) ==
    IF call.op = "addToCart"
        THEN AddToCart(checkouts, nextId, call.user, call.item, call.qty, now)
    ELSE IF call.op = "updateCartItemQuantity"
        THEN UpdateCartItemQuantity(checkouts, call.id, call.qty, now)
    ELSE IF call.op = "removeFromCart" THEN RemoveFromCart(checkouts, call.id)
    ELSE IF call.op = "updateCheckoutStep"
        THEN UpdateCheckoutStep(checkouts, call.id, "payment", now)
    ELSE IF call.op = "completeCheckout" THEN CompleteCheckout(checkouts, call.id, now)
    ELSE checkouts

\* the pending store request succeeds (updateDoc only on an existing document)
StoreSucceeds ==
    /\ svc.phase = "pending"
    /\ svc.op \in {"updateCartItemQuantity", "updateCheckoutStep", "completeCheckout"}
          => svc.id \in DOMAIN checkouts
    /\ IF NeedsCategoryLookup(svc)
       THEN /\ svc' = [svc EXCEPT !.request = "diagnostic", !.issued = svc.issued + 1]
            /\ UNCHANGED <<checkouts, nextId>>
       ELSE /\ svc' = [svc EXCEPT !.phase = "returned", !.request = "none",
                                  !.value = ReturnValue(svc)]
            /\ checkouts' = Written(svc)
            /\ nextId' = IF svc.op = "addToCart" THEN nextId + 1 ELSE nextId
    /\ UNCHANGED <<catalog, listVars, now, page, detailItem, quantity, cartItems, batch,
                   awaiting, orphans, adminOrders, orders, itemNames, shellVars>>

\* the catch blocks: every function logs and rethrows the error of its request;
\* the category lookup of getItemsByCategory has a catch block of its own that
\* only logs, after which the function returns the (empty) page
CatchRetries(call, error) ==
    IF call.issued < 2
    THEN [call EXCEPT !.issued = call.issued + 1, !.reported = error]
    ELSE [call EXCEPT !.phase = "thrown", !.request = "none", !.error = error,
                      !.reported = error]

Catch(call, error) ==
    IF call.request = "diagnostic"
    THEN [call EXCEPT !.phase = "returned", !.request = "none", !.reported = error,
                      !.value = ReturnValue(call)]
    ELSE [call EXCEPT !.phase = "thrown", !.request = "none", !.error = error,
                      !.reported = error]

\* the pending store request fails with the given error
StoreFails(error) ==
    /\ svc.phase = "pending"
    /\ svc' = Catch(svc, error)
    /\ UNCHANGED <<catalog, listVars, cartVars, adminOrders, orders, itemNames, shellVars>>

\* ------------------------------------------------------------- specifications
ListIdle ==
    /\ lCategory = NoCategory
    /\ lSortBy = "newest"
    /\ lPageSize = 1
    /\ lCursor = NoCursor
    /\ lPage = << >>
    /\ lAcc = << >>
    /\ lCalls = 0
    /\ lDone = FALSE

CartIdle ==
    /\ checkouts = << >>
    /\ nextId = 1
    /\ now = 0
    /\ page = [s \in Sessions |-> "other"]
    /\ detailItem = [s \in Sessions |-> 0]
    /\ quantity = [s \in Sessions |-> 1]
    /\ cartItems = [s \in Sessions |-> {}]
    /\ batch = [s \in Sessions |-> "idle"]
    /\ awaiting = [s \in Sessions |-> {}]
    /\ orphans = {}
    /\ adminOrders = {}
    /\ orders = [s \in Sessions |-> {}]

\* no service call made yet; the names the seeded items carry; the items
\* page, the auth provider and the admin categories page not in use
ServiceIdle ==
    /\ svc = NoCall
    /\ itemNames = SeedNames
    /\ ShellIdle

\* the catalog the storefront scenarios run on
SeedCatalog == [i \in ItemIds |-> [price |-> 1, createdAt |-> 1, category_id |-> "c1"]]

Init ==
    /\ catalog = SeedCatalog
    /\ ListIdle
    /\ CartIdle
    /\ ServiceIdle

\* the steps of one session that follow the purchase flow
FlowStep(s) ==
    \/ \E i \in CartItemIds : OpenItemPage(s, i)
    \/ HandleAddToCart(s)
    \/ OpenCartPage(s)
    \/ \E c \in cartItems[s] : HandleRemoveItem(s, c)
    \/ HandleProceedToCheckout(s)
    \/ OpenCheckoutPage(s)
    \/ OnSubmit(s)
    \/ \E id \in awaiting[s] : UpdateResolves(s, id)
    \/ \E id \in awaiting[s] : UpdateRejects(s, id)

\* the quantity selectors of one session
QuantityStep(s) ==
    \/ \E value \in {quantity[s] - 1, quantity[s] + 1} : DetailQuantityChange(s, value)
    \/ \E c \in cartItems[s] : \E newQuantity \in {c.quantity - 1, c.quantity + 1} :
          CartQuantityChange(s, c, newQuantity)

\* requests left in flight by a rejected batch
OrphanStep ==
    \/ \E o \in orphans : OrphanResolves(o)
    \/ \E o \in orphans : OrphanRejects(o)

\* one storefront session, with the clock running
Next ==
    \/ Tick
    \/ FlowStep("s1")
    \/ QuantityStep("s1")
    \/ OrphanStep

Spec == Init /\ [][Next]_vars

\* two sessions of the same user going through the purchase flow
NextShared ==
    \/ \E s \in {"s1", "s2"} : FlowStep(s)
    \/ OrphanStep

SpecShared == Init /\ [][NextShared]_vars

\* one storefront session and the admin orders page
NextAdmin ==
    \/ FlowStep("s1")
    \/ OrphanStep
    \/ AdminFetchOrders
    \/ \E o \in adminOrders : HandleUpdateOrderStatus(o)

SpecAdmin == Init /\ [][NextAdmin]_vars

\* two users going through the purchase flow and looking at their orders
NextUsers ==
    \/ FlowStep("s1")
    \/ FlowStep("s3")
    \/ OrphanStep
    \/ OpenProfilePage("s1")
    \/ OpenProfilePage("s3")

SpecUsers == Init /\ [][NextUsers]_vars

\* the catalog of the order scenarios: item 1 costs 10, the others 5
PricedCatalog ==
    [i \in ItemIds |-> [price |-> IF i = 1 THEN 10 ELSE 5, createdAt |-> 1,
                        category_id |-> "c1"]]

InitOrders ==
    /\ catalog = PricedCatalog
    /\ ListIdle
    /\ CartIdle
    /\ ServiceIdle

\* the fetches of the three pages with one failing request
FetchFails(s) ==
    \/ \E r \in DOMAIN checkouts \cup {QueryRequest} : OpenCartPageFails(s, {r})
    \/ \E r \in DOMAIN checkouts \cup {QueryRequest} : OpenCheckoutPageFails(s, {r})
    \/ \E r \in DOMAIN checkouts \cup {QueryRequest} : OpenProfilePageFails(s, {r})

\* one storefront session over several days, items being deleted by the admin
NextOrders ==
    \/ FlowStep("s1")
    \/ \E value \in 1..MaxQuantity : DetailQuantityChange("s1", value)
    \/ OrphanStep
    \/ NextDay
    \/ OpenProfilePage("s1")
    \/ OnSubmitEmpty("s1")
    \/ FetchFails("s1")
    \/ \E i \in CartItemIds : AdminDeleteItem(i)

SpecOrders == InitOrders /\ [][NextOrders]_vars

\* one storefront session whose checkout page fetch may fail
NextCheckout ==
    \/ FlowStep("s1")
    \/ OnSubmitEmpty("s1")
    \/ \E r \in DOMAIN checkouts \cup {QueryRequest} : OpenCheckoutPageFails("s1", {r})

SpecCheckout == Init /\ [][NextCheckout]_vars

\* ---------------------------------------------------------- items page
\* The component state of ItemsPageContent and the getAllItems / searchItems
\* requests it has in flight.  A click handler, the render it causes and the
\* effects of that render (with the render their own updates cause) are one
\* step; the responses of the requests are steps of their own.
ITEMS_PER_PAGE == MaxPageSize

\* the items collection of the items page scenarios: the first two items are
\* in category c1 (one full page when the page holds two), the others in c2
PageCatalog ==
    [i \in ItemIds |-> [price |-> i,
                        createdAt |-> IF i = 1 THEN MaxItems ELSE i - 1,
                        category_id |-> IF i <= 2 THEN "c1" ELSE "c2"]]

NoFetch == [category |-> NoCategory, sortBy |-> "newest", page |-> 0, cursor |-> NoCursor,
            base |-> << >>, isMounted |-> FALSE]

\* fetchItems as started by the fetch effect of a render: the request and the
\* values of the render the response handler closes over
Request(st) ==
    [category |-> st.selectedCategory, sortBy |-> st.sortBy, page |-> st.currentPage,
     cursor |-> IF st.currentPage > 1 THEN st.lastVisible ELSE NoCursor,
     base |-> st.items, isMounted |-> TRUE]

\* the cleanup of the fetch effect: isMounted = false in the run it belongs
\* to, whose response handler then returns without reading its closure
CleanupKeepsMounted(fetches) == fetches

Cleanup(fetches) == {[f EXCEPT !.isMounted = FALSE, !.base = << >>] : f \in fetches}

\* the effects after the commit of st, prev being the render before: the reset
\* effect [selectedCategory, sortBy] and the fetch effect [selectedCategory,
\* sortBy, currentPage] run with the values of st; the updates of the reset
\* effect are committed next and the fetch effect runs again if currentPage
\* has changed
RunEffects(prev, st) ==
    LET filterChanged == <<st.selectedCategory, st.sortBy>>
                            # <<prev.selectedCategory, prev.sortBy>>
        depsChanged == filterChanged \/ st.currentPage # prev.currentPage
        st1 == IF depsChanged
               THEN [st EXCEPT !.fetches = Cleanup(st.fetches) \cup {Request(st)}]
               ELSE st
        st2 == IF filterChanged
               THEN [st1 EXCEPT !.currentPage = 1, !.lastVisible = NoCursor, !.items = << >>]
               ELSE st1
    IN  IF st2.currentPage # st1.currentPage
        THEN [st2 EXCEPT !.fetches = Cleanup(st2.fetches) \cup {Request(st2)}]
        ELSE st2

\* the component after its first render and effects; categoryId is the
\* "category" search parameter of the URL.  applied, searched and results
\* record what has happened: the request whose result was applied last, and
\* whether a search has completed with results since the last click
MountPage(categoryId) ==
    LET st == [mounted |-> TRUE, items |-> << >>, selectedCategory |-> categoryId,
               sortBy |-> "newest", lastVisible |-> NoCursor, hasMore |-> TRUE,
               currentPage |-> 1, fetches |-> {}, searches |-> {},
               applied |-> NoFetch, searched |-> FALSE, results |-> << >>]
    IN  [st EXCEPT !.fetches = {Request(st)}]

\* a click: the handler's updates, then the render and its effects
Click(st) ==
    /\ itemsPage.mounted
    /\ Cardinality(itemsPage.fetches) + 2 <= MaxInFlight
    /\ Len(itemsPage.items) <= MaxShown
    /\ itemsPage' = RunEffects(itemsPage, [st EXCEPT !.searched = FALSE])
    /\ UNCHANGED <<catalog, listVars, cartVars, adminOrders, orders, serviceVars, auth,
                   categories>>

\* the category menu ("All Categories" is NoCategory), the filter chip and
\* the "View all products" button
SelectCategory(categoryId) ==
    /\ Click([itemsPage EXCEPT !.selectedCategory = categoryId, !.items = << >>,
                               !.lastVisible = NoCursor, !.currentPage = 1])

SetSortBy(sortBy) ==
    /\ Click([itemsPage EXCEPT !.sortBy = sortBy])

\* the pagination is rendered while items are displayed
PaginationShown == itemsPage.mounted /\ itemsPage.items # << >>

LoadNextPage ==
    /\ PaginationShown
    /\ itemsPage.hasMore
    /\ itemsPage.currentPage < MaxPage
    /\ Click([itemsPage EXCEPT !.currentPage = itemsPage.currentPage + 1])

LoadPreviousPage ==
    /\ PaginationShown
    /\ itemsPage.currentPage > 1
    /\ Click([itemsPage EXCEPT !.currentPage = 1, !.lastVisible = NoCursor])

\* the page links the pagination offers
PageLinks ==
    {1} \cup (IF itemsPage.currentPage > 2 THEN {itemsPage.currentPage - 1} ELSE {})
        \cup (IF itemsPage.currentPage = 2 THEN {2} ELSE {})
        \cup (IF itemsPage.hasMore THEN {itemsPage.currentPage + 1} ELSE {})

GoToPageJumps(st, target) == [st EXCEPT !.currentPage = target]

GoToPageUpdate(st, target) ==
    IF target = 1 THEN [st EXCEPT !.currentPage = 1, !.lastVisible = NoCursor]
    ELSE IF target > st.currentPage THEN [st EXCEPT !.currentPage = st.currentPage + 1]
    ELSE [st EXCEPT !.currentPage = 1, !.lastVisible = NoCursor]

GoToPage(target) ==
    /\ PaginationShown
    /\ target \in PageLinks
    /\ target <= MaxPage
    /\ Click(GoToPageUpdate(itemsPage, target))

\* handleSearch up to its await: the request is issued
HandleSearch(searchQuery) ==
    /\ itemsPage.mounted
    /\ itemsPage.searches = {}
    /\ Click([itemsPage EXCEPT !.currentPage = 1, !.selectedCategory = NoCategory,
                               !.searches = {searchQuery}])

\* what fetchItems does with the result of its request
ApplyResult(st, f) ==
    LET result == GetAllItems(f.category, f.sortBy, ITEMS_PER_PAGE, f.cursor)
    IN  IF result.items = << >>
        THEN [st EXCEPT !.items = << >>, !.hasMore = FALSE,
                        !.applied = [f EXCEPT !.base = << >>]]
        ELSE [st EXCEPT !.items = IF f.page = 1 THEN result.items
                                  ELSE f.base \o result.items,
                        !.lastVisible = result.lastVisible,
                        !.hasMore = (Len(result.items) = ITEMS_PER_PAGE),
                        !.applied = [f EXCEPT !.base = << >>]]

\* the response of a getAllItems request arrives
FetchItemsResponds(f) ==
    /\ itemsPage.mounted
    /\ f \in itemsPage.fetches
    /\ LET st == [itemsPage EXCEPT !.fetches = itemsPage.fetches \ {f}]
       IN  itemsPage' = IF f.isMounted THEN ApplyResult(st, f) ELSE st
    /\ UNCHANGED <<catalog, listVars, cartVars, adminOrders, orders, serviceVars, auth,
                   categories>>

\* a getAllItems request fails: the catch block drops the category filter
FetchItemsFails(f) ==
    /\ itemsPage.mounted
    /\ f \in itemsPage.fetches
    /\ LET st == [itemsPage EXCEPT !.fetches = itemsPage.fetches \ {f}]
       IN  itemsPage' = IF f.isMounted /\ f.category # NoCategory
                        THEN RunEffects(itemsPage, [st EXCEPT !.selectedCategory = NoCategory])
                        ELSE st
    /\ UNCHANGED <<catalog, listVars, cartVars, adminOrders, orders, serviceVars, auth,
                   categories>>

\* handleSearch after its await
SearchResponds(searchQuery) ==
    /\ itemsPage.mounted
    /\ searchQuery \in itemsPage.searches
    /\ LET searchResults == SearchItems(itemNames, searchQuery, ITEMS_PER_PAGE)
       IN  itemsPage' = [itemsPage EXCEPT !.searches = {},
                                          !.items = searchResults,
                                          !.hasMore = FALSE,
                                          !.searched = (searchResults # << >>),
                                          !.results = searchResults]
    /\ UNCHANGED <<catalog, listVars, cartVars, adminOrders, orders, serviceVars, auth,
                   categories>>

SearchFails(searchQuery) ==
    /\ itemsPage.mounted
    /\ searchQuery \in itemsPage.searches
    /\ itemsPage' = [itemsPage EXCEPT !.searches = {}]
    /\ UNCHANGED <<catalog, listVars, cartVars, adminOrders, orders, serviceVars, auth,
                   categories>>

\* -------------------------------------------------- auth provider, guard
\* AuthProvider's state (user, userData, loading), the onAuthStateChanged
\* callbacks that are between two awaits, and one AdminRouteGuard below the
\* provider.  A state update, the render it causes and the guard's effect of
\* that render are one step.
NoUser == "none"
NoUserData == [uid |-> NoUser, roles |-> {}]          \* userData null

\* the slugs of the roles the userRoles and roles collections give a user
UserRoles == [u \in Users |-> IF u = "u1" THEN {"root"} ELSE {"client"}]

NoGuard == [mounted |-> FALSE, isAuthorized |-> FALSE, isChecking |-> TRUE,
            redirect |-> "none"]

HasRole(userData, roleSlug) == roleSlug \in userData.roles

\* the effect of AdminRouteGuard, run after a render of the context st
GuardEffect(st) ==
    IF ~st.guard.mounted \/ st.loading THEN st
    ELSE IF st.user = NoUser
        THEN [st EXCEPT !.guard.redirect = "/auth/login", !.guard.isChecking = FALSE]
    ELSE IF st.userData # NoUserData /\ ~HasRole(st.userData, "root")
        THEN [st EXCEPT !.guard.redirect = "/home", !.guard.isChecking = FALSE]
    ELSE IF st.userData # NoUserData /\ HasRole(st.userData, "root")
        THEN [st EXCEPT !.guard.isAuthorized = TRUE, !.guard.isChecking = FALSE]
    ELSE [st EXCEPT !.guard.isChecking = FALSE]

\* what AdminRouteGuard returns: its children, or the spinner / nothing
ChildrenRendered(st) ==
    /\ st.guard.mounted
    /\ ~(st.guard.isChecking \/ st.loading)
    /\ st.guard.isAuthorized

MountAuth == [mounted |-> TRUE, user |-> NoUser, userData |-> NoUserData,
              loading |-> TRUE, callbacks |-> {}, guard |-> NoGuard]

AuthStep(st) ==
    /\ auth.mounted
    /\ auth' = GuardEffect(st)
    /\ UNCHANGED <<catalog, listVars, cartVars, adminOrders, orders, serviceVars, itemsPage,
                   categories>>

\* onAuthStateChanged fires (first with the persisted state, then on login,
\* logout and login as another user): the callback runs up to its first await,
\* or to its end when nobody is signed in
AuthStateChanged(currentUser) ==
    /\ auth.mounted
    /\ \/ auth.loading /\ auth.user = NoUser /\ auth.callbacks = {}
       \/ currentUser # auth.user
    /\ AuthStep(IF currentUser = NoUser
                THEN [auth EXCEPT !.user = NoUser, !.userData = NoUserData,
                                  !.loading = FALSE]
                ELSE [auth EXCEPT !.user = currentUser,
                                  !.callbacks = auth.callbacks
                                      \cup {[uid |-> currentUser, await |-> "userDoc"]}])

\* getDoc(users/uid) resolves in a callback: the base user data is set and the
\* role lookups start
UserDocLoaded(cb) ==
    /\ cb \in auth.callbacks
    /\ cb.await = "userDoc"
    /\ AuthStep([auth EXCEPT !.userData = [uid |-> cb.uid, roles |-> {}],
                             !.callbacks = (auth.callbacks \ {cb})
                                 \cup {[uid |-> cb.uid, await |-> "roles"]}])

\* getDoc(users/uid) rejects: the outer catch sets the basic user data
UserDocFails(cb) ==
    /\ cb \in auth.callbacks
    /\ cb.await = "userDoc"
    /\ AuthStep([auth EXCEPT !.userData = [uid |-> cb.uid, roles |-> {}],
                             !.loading = FALSE,
                             !.callbacks = auth.callbacks \ {cb}])

\* setUserData(prevData => prevData ? { ...prevData, roles } : null)
MergeRoles(prevData, uid, roles) ==
    IF prevData # NoUserData THEN [prevData EXCEPT !.roles = roles] ELSE NoUserData

\* the userRoles query and the role lookups of a callback have resolved
RolesLoaded(cb) ==
    /\ cb \in auth.callbacks
    /\ cb.await = "roles"
    /\ AuthStep([auth EXCEPT !.userData = IF UserRoles[cb.uid] # {}
                                          THEN MergeRoles(auth.userData, cb.uid,
                                                          UserRoles[cb.uid])
                                          ELSE auth.userData,
                             !.loading = FALSE,
                             !.callbacks = auth.callbacks \ {cb}])

\* a role lookup rejects: the inner catch goes on with the base user data
RolesFail(cb) ==
    /\ cb \in auth.callbacks
    /\ cb.await = "roles"
    /\ AuthStep([auth EXCEPT !.loading = FALSE, !.callbacks = auth.callbacks \ {cb}])

\* an admin route is opened: AdminRouteGuard mounts and runs its effect
MountGuard ==
    /\ ~auth.guard.mounted
    /\ AuthStep([auth EXCEPT !.guard = [NoGuard EXCEPT !.mounted = TRUE]])

\* the navigation started by router.push completes: the guard unmounts
GuardRedirected ==
    /\ auth.guard.mounted
    /\ auth.guard.redirect # "none"
    /\ AuthStep([auth EXCEPT !.guard = NoGuard])

\* ------------------------------------------------- admin categories page
\* The "categories" collection (id -> parent_category_id), the ids addDoc has
\* given out, and the handleDeleteCategory calls that are between two awaits.
CategoryIds == Categories \cup {"c3"}
NoParent == "none"

SeedCategories == [mounted |-> TRUE,
                   docs |-> [c \in Categories |-> NoParent],
                   created |-> Categories,
                   deletes |-> {}]

\* where("category_id", "==", id) on items
ItemsOfCategory(id) == {i \in DOMAIN catalog : catalog[i].category_id = id}

\* where("parent_category_id", "==", id) on categories
Subcategories(id) == {c \in DOMAIN categories.docs : categories.docs[c] = id}

CategoryStep(st) ==
    /\ categories.mounted
    /\ categories' = st
    /\ UNCHANGED <<catalog, listVars, cartVars, adminOrders, orders, serviceVars, itemsPage,
                   auth>>

\* handleDeleteCategory up to its first await: the items query is issued
HandleDeleteCategory(id) ==
    /\ categories.mounted
    /\ id \in DOMAIN categories.docs
    /\ CategoryStep([categories EXCEPT !.deletes = categories.deletes
                                          \cup {[id |-> id, await |-> "items"]}])

\* the items query resolves: give up if the category has items, else issue
\* the subcategories query
ItemsChecked(d) ==
    /\ d \in categories.deletes
    /\ d.await = "items"
    /\ CategoryStep([categories EXCEPT !.deletes =
            IF ItemsOfCategory(d.id) # {} THEN categories.deletes \ {d}
            ELSE (categories.deletes \ {d}) \cup {[id |-> d.id, await |-> "subcategories"]}])

\* the subcategories query resolves: give up if there are subcategories, else
\* issue deleteDoc
SubcategoriesChecked(d) ==
    /\ d \in categories.deletes
    /\ d.await = "subcategories"
    /\ CategoryStep([categories EXCEPT !.deletes =
            IF Subcategories(d.id) # {} THEN categories.deletes \ {d}
            ELSE (categories.deletes \ {d}) \cup {[id |-> d.id, await |-> "delete"]}])

\* deleteDoc is applied by the store
CategoryDeleted(d) ==
    /\ d \in categories.deletes
    /\ d.await = "delete"
    /\ CategoryStep([categories EXCEPT !.docs = DeleteDoc(categories.docs, d.id),
                                       !.deletes = categories.deletes \ {d}])

\* a request of handleDeleteCategory fails: the catch block
CategoryDeleteFails(d) ==
    /\ d \in categories.deletes
    /\ CategoryStep([categories EXCEPT !.deletes = categories.deletes \ {d}])

\* handleSaveCategory creating a category under a parent of the list
CreateSubcategory(id, parent) ==
    /\ categories.mounted
    /\ id \notin categories.created
    /\ parent \in DOMAIN categories.docs
    /\ CategoryStep([categories EXCEPT !.docs = SetDoc(categories.docs, id, parent),
                                       !.created = categories.created \cup {id}])

\* the admin items page creating an item in a category of its list
AdminCreateItem(i, categoryId) ==
    /\ categories.mounted
    /\ i \notin DOMAIN catalog
    /\ i = Cardinality(DOMAIN catalog) + 1
    /\ categoryId \in DOMAIN categories.docs
    /\ catalog' = SetDoc(catalog, i, [price |-> 1, createdAt |-> 1,
                                      category_id |-> categoryId])
    /\ UNCHANGED <<listVars, cartVars, adminOrders, orders, serviceVars, shellVars>>

\* the exported service functions called one after the other, any store
\* request failing or succeeding
NextService ==
    \/ \E op \in ListOps, categoryId \in Categories \cup {NoCategory}, sortBy \in SortKeys :
          CallListing(op, categoryId, sortBy)
    \/ \E searchQuery \in {<<1>>}, limitCount \in 1..MaxPageSize :
          CallSearchItems(searchQuery, limitCount)
    \/ \E itemId \in ItemIds : CallGetItemById(itemId)
    \/ \E userId \in Users : CallGetCartItems(userId)
    \/ \E userId \in Users, itemId \in CartItemIds, qty \in 1..MaxQuantity :
          CallAddToCart(userId, itemId, qty)
    \/ \E checkoutId \in CheckoutIds, qty \in 1..MaxQuantity :
          CallOnCheckout("updateCartItemQuantity", checkoutId, qty)
    \/ \E op \in {"removeFromCart", "updateCheckoutStep", "completeCheckout"},
          checkoutId \in CheckoutIds : CallOnCheckout(op, checkoutId, 0)
    \/ StoreSucceeds
    \/ \E error \in StoreErrors : StoreFails(error)

SpecService == Init /\ [][NextService]_vars

\* searches over arbitrary item names
InitSearch ==
    /\ catalog = SeedCatalog
    /\ ListIdle
    /\ CartIdle
    /\ svc = NoCall
    /\ itemNames \in [ItemIds -> Names]
    /\ ShellIdle

NextSearch ==
    \/ \E searchQuery \in Names, limitCount \in 1..MaxPageSize :
          CallSearchItems(searchQuery, limitCount)
    \/ StoreSucceeds
    \/ \E error \in StoreErrors : StoreFails(error)

SpecSearch == InitSearch /\ [][NextSearch]_vars

\* the items page, opened with or without a category in the URL
InitPage ==
    /\ catalog = PageCatalog
    /\ ListIdle
    /\ CartIdle
    /\ svc = NoCall
    /\ itemNames = SeedNames
    /\ itemsPage \in {MountPage(categoryId) : categoryId \in Categories \cup {NoCategory}}
    /\ auth = NoAuth
    /\ categories = NoCategories

NextPage ==
    \/ \E categoryId \in Categories \cup {NoCategory} : SelectCategory(categoryId)
    \/ \E sortBy \in SortKeys : SetSortBy(sortBy)
    \/ LoadNextPage
    \/ LoadPreviousPage
    \/ \E target \in 1..MaxPage : GoToPage(target)
    \/ \E searchQuery \in {<<1>>, <<2>>} : HandleSearch(searchQuery)
    \/ \E f \in itemsPage.fetches : FetchItemsResponds(f)
    \/ \E f \in itemsPage.fetches : FetchItemsFails(f)
    \/ \E searchQuery \in itemsPage.searches : SearchResponds(searchQuery)
    \/ \E searchQuery \in itemsPage.searches : SearchFails(searchQuery)

SpecPage == InitPage /\ [][NextPage]_vars

\* the auth provider under logins and logouts, with an admin route
InitAuth ==
    /\ catalog = SeedCatalog
    /\ ListIdle
    /\ CartIdle
    /\ svc = NoCall
    /\ itemNames = SeedNames
    /\ itemsPage = NoPage
    /\ auth = MountAuth
    /\ categories = NoCategories

NextAuth ==
    \/ \E currentUser \in Users \cup {NoUser} : AuthStateChanged(currentUser)
    \/ \E cb \in auth.callbacks : UserDocLoaded(cb)
    \/ \E cb \in auth.callbacks : UserDocFails(cb)
    \/ \E cb \in auth.callbacks : RolesLoaded(cb)
    \/ \E cb \in auth.callbacks : RolesFail(cb)
    \/ MountGuard
    \/ GuardRedirected

SpecAuth == InitAuth /\ [][NextAuth]_vars

\* the admin categories page, with items and subcategories being created
InitCategories ==
    /\ catalog = << >>
    /\ ListIdle
    /\ CartIdle
    /\ svc = NoCall
    /\ itemNames = SeedNames
    /\ itemsPage = NoPage
    /\ auth = NoAuth
    /\ categories = SeedCategories

NextCategories ==
    \/ \E id \in CategoryIds : HandleDeleteCategory(id)
    \/ \E d \in categories.deletes : ItemsChecked(d)
    \/ \E d \in categories.deletes : SubcategoriesChecked(d)
    \/ \E d \in categories.deletes : CategoryDeleted(d)
    \/ \E d \in categories.deletes : CategoryDeleteFails(d)
    \/ \E id \in CategoryIds, parent \in CategoryIds : CreateSubcategory(id, parent)
    \/ \E i \in CartItemIds, categoryId \in CategoryIds : AdminCreateItem(i, categoryId)

SpecCategories == InitCategories /\ [][NextCategories]_vars

\* the listing scenarios
InitListing ==
    /\ InitList
    /\ CartIdle
    /\ ServiceIdle

NextList == ListNextPage

SpecList == InitListing /\ [][NextList]_vars

\* ===================================================== claims on the listing
\* the items the listing is about: all of them, or those of the category
Matching ==
    IF lCategory = NoCategory THEN ItemIds
    ELSE {i \in ItemIds : catalog[i].category_id = lCategory}

\* a single fetch whose limit covers the whole collection
Unpaged == GetAllItems(lCategory, lSortBy, MaxItems, NoCursor).items

IsPrefix(a, b) == Len(a) <= Len(b) /\ a = SubSeq(b, 1, Len(a))

NoDuplicates(a) == \A j, k \in 1..Len(a) : a[j] = a[k] => j = k

\* the requested order holds between neighbours
InRequestedOrder(a) ==
    \A k \in 1..(Len(a) - 1) :
        IF lSortBy = "price_asc" THEN catalog[a[k]].price <= catalog[a[k + 1]].price
        ELSE IF lSortBy = "price_desc" THEN catalog[a[k]].price >= catalog[a[k + 1]].price
        ELSE catalog[a[k]].createdAt >= catalog[a[k + 1]].createdAt

\* C1: passing the returned cursor from call to call, the pages returned so far
\* are always a prefix of the unpaged listing, and once the listing has ended
\* their concatenation is that listing: every matching item once, in order.
C1_PagesConcatenateToListing ==
    /\ IsPrefix(lAcc, Unpaged)
    /\ lDone => /\ lAcc = Unpaged
                /\ Range(lAcc) = Matching
                /\ NoDuplicates(lAcc)
                /\ InRequestedOrder(lAcc)

\* a listing of several pages that ended, with a page boundary between two
\* items of equal sort key
C1_Witness ==
    /\ lDone
    /\ lPageSize = 1
    /\ Len(lAcc) >= 3
    /\ OrderField(lSortBy, lAcc[1]) = OrderField(lSortBy, lAcc[2])

\* C6 as stated: no cursor whenever the page is shorter than pageSize, the
\* last item of the page otherwise.
C6_NoCursorOnShortPage ==
    lCalls > 0 =>
        IF Len(lPage) < lPageSize THEN lCursor = NoCursor ELSE lCursor = Last(lPage)

\* C6 amended: no cursor only when the page is empty; a non-empty page, also
\* one shorter than pageSize, returns its last item as cursor.
C6_NoCursorOnEmptyPage ==
    lCalls > 0 =>
        IF Len(lPage) = 0 THEN lCursor = NoCursor ELSE lCursor = Last(lPage)

\* a non-empty page shorter than pageSize was returned together with a cursor
C6_Witness ==
    /\ lCalls > 0
    /\ Len(lPage) > 0
    /\ Len(lPage) < lPageSize
    /\ lCursor = Last(lPage)

\* ================================================ claims on the checkouts
StepRank(step) ==
    IF step = "added_to_cart" THEN 1
    ELSE IF step = "payment" THEN 2
    ELSE IF step = "completed" THEN 3
    ELSE 0

\* number of active (is_done = false) records of a (user, item) pair
ActiveCount(store, u, i) ==
    Cardinality({id \in DOMAIN store :
                   store[id].user_id = u /\ store[id].item_id = i /\ ~store[id].is_done})

\* C2: the last_step of a checkout record never moves backward in the order
\* added_to_cart < payment < completed, whatever operation touches it.
C2_LastStepNeverMovesBack ==
    [][\A id \in DOMAIN checkouts \cap DOMAIN checkouts' :
          (StepRank(checkouts[id].last_step) > 0 /\ StepRank(checkouts'[id].last_step) > 0)
            => StepRank(checkouts'[id].last_step) >= StepRank(checkouts[id].last_step)]_vars

\* C3: every checkout record with is_done = true has last_step = completed.
C3_DoneImpliesCompleted ==
    \A id \in DOMAIN checkouts :
        checkouts[id].is_done => checkouts[id].last_step = "completed"

\* C4: no storefront step deletes a checkout record whose is_done is true.
C4_CompletedNeverDeleted ==
    [][\A id \in DOMAIN checkouts \ DOMAIN checkouts' : ~checkouts[id].is_done]_vars

\* C5: when an update of a batch fails, the batch reports failure: the cart
\* page does not navigate and the checkout page does not show success; the
\* step changes no checkout record, so updates already applied stay applied.
C5_FailedBatchReportsAndKeeps ==
    [][\A s \in Sessions :
          /\ \A id \in awaiting[s] :
                UpdateRejects(s, id) => batch'[s] = "failed"
          /\ (batch[s] = "running" /\ batch'[s] = "failed")
                => /\ page'[s] = page[s]
                   /\ cartItems'[s] = cartItems[s]
                   /\ checkouts' = checkouts]_vars

\* a proceed-to-checkout batch has failed and left the cart mixed: one line
\* item already in payment, another still in added_to_cart
C5_Witness ==
    \E s \in Sessions :
        /\ batch[s] = "failed"
        /\ page[s] = "cart"
        /\ \E a, b \in ViewIds(cartItems[s]) \cap DOMAIN checkouts :
              /\ checkouts[a].last_step = "payment"
              /\ checkouts[b].last_step = "added_to_cart"

\* C7: completing a line item leaves it is_done with last_step completed, in
\* completedOrders(u) and out of activeCart(u); and from then on it stays in
\* completedOrders(u) and out of activeCart(u).
C7_CompletedStaysCompleted ==
    [][\A id \in DOMAIN checkouts :
          /\ (~checkouts[id].is_done /\ id \in DOMAIN checkouts' /\ checkouts'[id].is_done)
                => /\ checkouts'[id].last_step = "completed"
                   /\ id \in CompletedOrders(checkouts', checkouts[id].user_id)
                   /\ id \notin GetCartItems(checkouts', checkouts[id].user_id)
          /\ (checkouts[id].is_done /\ checkouts[id].last_step = "completed")
                => /\ id \in CompletedOrders(checkouts', checkouts[id].user_id)
                   /\ id \notin GetCartItems(checkouts', checkouts[id].user_id)]_vars

\* C8: a successful addToCart(u, i, q) creates exactly one record, with the
\* fields of the call and in state ADDED, and changes no existing record; on
\* an empty cart, activeCart(u) is then exactly that record.
C8_AddToCartCreatesOneRecord ==
    [][nextId' # nextId =>
          \E s \in Sessions :
             /\ page[s] = "detail"
             /\ nextId \notin DOMAIN checkouts
             /\ DOMAIN checkouts' = DOMAIN checkouts \cup {nextId}
             /\ checkouts'[nextId] =
                  [user_id |-> SessionUser[s], item_id |-> detailItem[s],
                   quantity |-> quantity[s], is_done |-> FALSE,
                   last_step |-> "added_to_cart", reason |-> "",
                   createdAt |-> now, updatedAt |-> now]
             /\ \A j \in DOMAIN checkouts : checkouts'[j] = checkouts[j]
             /\ GetCartItems(checkouts, SessionUser[s]) = {}
                   => GetCartItems(checkouts', SessionUser[s]) = {nextId}]_vars

\* the same user holds two active records of the same item, with different
\* quantities
C8_Witness ==
    \E a, b \in DOMAIN checkouts :
        /\ a # b
        /\ checkouts[a].user_id = checkouts[b].user_id
        /\ checkouts[a].item_id = checkouts[b].item_id
        /\ ~checkouts[a].is_done /\ ~checkouts[b].is_done
        /\ checkouts[a].quantity = 1
        /\ checkouts[b].quantity = 2

\* C9 as stated: at most one active record per (user_id, item_id) pair.
C9_AtMostOneActivePerPair ==
    \A u \in Users, i \in CartItemIds : ActiveCount(checkouts, u, i) <= 1

\* C9 amended: only a successful addToCart raises the number of active records
\* of a pair, by one and for its own pair (also when the pair already has
\* one); no other storefront operation raises it for any pair.
C9_OnlyAddToCartAddsActive ==
    [][\A u \in Users, i \in CartItemIds :
          ActiveCount(checkouts', u, i) <=
             ActiveCount(checkouts, u, i)
               + (IF /\ nextId' # nextId
                     /\ nextId \in DOMAIN checkouts'
                     /\ checkouts'[nextId].user_id = u
                     /\ checkouts'[nextId].item_id = i
                  THEN 1 ELSE 0)]_vars

\* two active records of one pair, one of them already advanced to payment
C9_Witness ==
    \E a, b \in DOMAIN checkouts :
        /\ a # b
        /\ checkouts[a].user_id = checkouts[b].user_id
        /\ checkouts[a].item_id = checkouts[b].item_id
        /\ ~checkouts[a].is_done /\ ~checkouts[b].is_done
        /\ checkouts[a].last_step = "payment"
        /\ checkouts[b].last_step = "added_to_cart"

\* C10: the quantity selectors never hold, and no checkout record created or
\* modified through them ever has, a quantity below 1.
C10_QuantityAtLeastOne ==
    /\ \A id \in DOMAIN checkouts : checkouts[id].quantity >= 1
    /\ \A s \in Sessions :
          /\ quantity[s] >= 1
          /\ \A c \in cartItems[s] : c.quantity >= 1

\* a line item whose quantity the cart page has brought back down to 1: the
\* next decrement is the one the boundary rejects
C10_Witness ==
    \E s \in Sessions : \E c \in cartItems[s] :
        /\ page[s] = "cart"
        /\ c.id \in DOMAIN checkouts
        /\ checkouts[c.id].last_step = "added_to_cart"
        /\ checkouts[c.id].updatedAt > checkouts[c.id].createdAt
        /\ checkouts[c.id].quantity = 1
        /\ c.quantity = 1

\* C13: within one category the pages of getItemsByCategory follow the
\* requested key, inside each page and across successive pages: price
\* non-decreasing for price_asc, price non-increasing for price_desc, createdAt
\* non-increasing for newest.
C13_CategoryPagesInOrder ==
    lCategory # NoCategory =>
        /\ InRequestedOrder(lPage)
        /\ InRequestedOrder(lAcc)

\* a category listing of two pages whose first and last items differ in the
\* sort key, the first page holding two items
C13_Witness ==
    /\ lCategory # NoCategory
    /\ lPageSize = 2
    /\ lCalls = 2
    /\ Len(lAcc) = 3
    /\ OrderField(lSortBy, lAcc[1]) # OrderField(lSortBy, lAcc[3])

\* C14: a quantity change to q >= 1 leaves the record with quantity q and an
\* updatedAt not earlier than before, and leaves user_id, item_id, is_done,
\* last_step, reason and createdAt as they were.
C14_SetQuantityTouchesQuantityOnly ==
    [][\A s \in Sessions : \A c \in cartItems[s] : \A q \in 1..MaxQuantity :
          CartQuantityChange(s, c, q) =>
             /\ checkouts'[c.id].quantity = q
             /\ checkouts'[c.id].updatedAt >= checkouts[c.id].updatedAt
             /\ checkouts'[c.id].user_id = checkouts[c.id].user_id
             /\ checkouts'[c.id].item_id = checkouts[c.id].item_id
             /\ checkouts'[c.id].is_done = checkouts[c.id].is_done
             /\ checkouts'[c.id].last_step = checkouts[c.id].last_step
             /\ checkouts'[c.id].reason = checkouts[c.id].reason
             /\ checkouts'[c.id].createdAt = checkouts[c.id].createdAt]_vars

\* a line item already in payment whose quantity the cart page has raised at a
\* later instant than the one it was created at
C14_Witness ==
    \E s \in Sessions : \E c \in cartItems[s] :
        /\ page[s] = "cart"
        /\ c.id \in DOMAIN checkouts
        /\ c.quantity = 2
        /\ checkouts[c.id].quantity = 2
        /\ checkouts[c.id].last_step = "payment"
        /\ checkouts[c.id].updatedAt > checkouts[c.id].createdAt

\* C15: removing a line item takes it out of activeCart(u) and leaves every
\* other checkout record as it was; a removed record never comes back, so it
\* is absent from every later activeCart(u) result.
C15_RemovedStaysAbsent ==
    [][/\ \A s \in Sessions : \A c \in cartItems[s] :
             HandleRemoveItem(s, c) =>
                /\ c.id \notin GetCartItems(checkouts', SessionUser[s])
                /\ \A j \in DOMAIN checkouts \ {c.id} :
                      j \in DOMAIN checkouts' /\ checkouts'[j] = checkouts[j]
       /\ \A id \in 1..(nextId - 1) : \A u \in Users :
             id \notin DOMAIN checkouts => id \notin GetCartItems(checkouts', u)]_vars

\* a line item has been removed while the other session still lists it and
\* the other record of the cart is still there, untouched in state ADDED
C15_Witness ==
    \E s \in Sessions : \E c \in cartItems[s] : \E j \in DOMAIN checkouts :
        /\ c.id \notin DOMAIN checkouts
        /\ c.id < nextId
        /\ j # c.id
        /\ checkouts[j].last_step = "added_to_cart"
        /\ j \in ViewIds(cartItems[s])

\* C16: the result of a batch becomes available only once every update the
\* batch issued has settled: the step that ends a batch leaves none of its
\* updates in flight.
C16_ResultOnlyOnceAllSettled ==
    [][\A s \in Sessions :
          (batch[s] = "running" /\ batch'[s] # "running") => orphans' \subseteq orphans]_vars

\* the records of a user, by is_done
RecordsOf(u, done) ==
    {id \in DOMAIN checkouts : checkouts[id].user_id = u /\ checkouts[id].is_done = done}

\* C11: activeCart(u) is exactly the records of u with is_done = false,
\* whatever their last_step, and completedOrders(u) exactly those of u with
\* is_done = true; neither holds a record of another user and every record of
\* u is in exactly one of the two.  The cart page and the profile page show
\* exactly what the two queries return.
C11_QueriesPartitionByOwner ==
    /\ [](\A u \in Users :
            /\ GetCartItems(checkouts, u) = RecordsOf(u, FALSE)
            /\ CompletedOrders(checkouts, u) = RecordsOf(u, TRUE)
            /\ \A id \in DOMAIN checkouts :
                  /\ id \in GetCartItems(checkouts, u) \cup CompletedOrders(checkouts, u)
                        <=> checkouts[id].user_id = u
                  /\ id \notin GetCartItems(checkouts, u) \cap CompletedOrders(checkouts, u))
    /\ [][\A s \in Sessions :
            /\ OpenCartPage(s) => ViewIds(cartItems'[s]) = RecordsOf(SessionUser[s], FALSE)
            /\ OpenProfilePage(s) =>
                  /\ {o.date : o \in orders'[s]} =
                        {DateOf(checkouts[id].updatedAt) : id \in RecordsOf(SessionUser[s], TRUE)}
                  /\ \A o \in orders'[s] :
                        LET ids == AscendingSeq({id \in RecordsOf(SessionUser[s], TRUE) :
                                                   DateOf(checkouts[id].updatedAt) = o.date})
                        IN  /\ Len(o.items) = Len(ids)
                            /\ \A k \in 1..Len(ids) :
                                  /\ o.items[k].id = checkouts[ids[k]].item_id
                                  /\ o.items[k].quantity = checkouts[ids[k]].quantity]_vars

\* u1 sees its one line item, already in payment, on the cart page while the
\* store also holds a completed record of u2, which u2 sees on the profile page
C11_Witness ==
    \E a, b \in DOMAIN checkouts :
        /\ checkouts[a].user_id = "u1"
        /\ ~checkouts[a].is_done
        /\ checkouts[a].last_step = "payment"
        /\ checkouts[b].user_id = "u2"
        /\ checkouts[b].is_done
        /\ page["s1"] = "cart"
        /\ ViewIds(cartItems["s1"]) = {a}
        /\ page["s3"] = "profile"
        /\ \E o \in orders["s3"] : Len(o.items) = 1

\* the completed records of a user that fall on one calendar date, and those
\* of them whose item still exists
CompletedOn(u, date) ==
    {id \in RecordsOf(u, TRUE) : DateOf(checkouts[id].updatedAt) = date}

ItemExists(id) == checkouts[id].item_id \in DOMAIN catalog

\* sum of current item price times quantity over a set of checkout records
RECURSIVE LineSum(_)
LineSum(ids) ==
    IF ids = {} THEN 0
    ELSE LET id == CHOOSE j \in ids : TRUE
         IN  catalog[checkouts[id].item_id].price * checkouts[id].quantity
               + LineSum(ids \ {id})

\* C12: the total of a derived order is the sum of current item price times
\* quantity over the completed line items of its date; when the order is made
\* of the line items the checkout page has just paid, every item still exists
\* and prices are those shown, it equals the total shown before checkout.
C12_OrderTotalIsLineSum ==
    [][\A s \in Sessions :
          (page'[s] = "profile" /\ OpenProfilePage(s)) =>
             \A o \in orders'[s] :
                LET group == CompletedOn(SessionUser[s], o.date)
                IN  /\ o.total = LineSum({id \in group : ItemExists(id)})
                    /\ ( /\ page[s] = "checkout"
                         /\ batch[s] = "success"
                         /\ ViewIds(cartItems[s]) = group
                         /\ \A c \in cartItems[s] :
                               /\ c.item_id \in DOMAIN catalog
                               /\ catalog[c.item_id].price = c.price )
                          => o.total = CalculateTotal(cartItems[s])]_vars

\* the profile page shows an order of two line items, 10 x 2 and 5 x 1, with
\* total 25, completed on the date after the one they were added on
C12_Witness ==
    \E s \in Sessions : \E o \in orders[s] :
        /\ page[s] = "profile"
        /\ Len(o.items) = 2
        /\ o.total = 25
        /\ \A id \in CompletedOn(SessionUser[s], o.date) :
              DateOf(checkouts[id].createdAt) # o.date

\* a step in which the session mounts a page (again)
Mounted(s) ==
    /\ page'[s] \in {"cart", "checkout", "profile"}
    /\ batch'[s] = "idle"
    /\ <<checkouts, nextId, now, awaiting, orphans, catalog>>'
          = <<checkouts, nextId, now, awaiting, orphans, catalog>>

\* C19: in the three joins a line item whose item has no record is left out
\* and all other line items are returned; when a request of the fetch fails,
\* the whole join is abandoned: a page that shows a line item or an order is
\* never the outcome of a fetch with a failed request.
C19_JoinOmitsMissingAbortsOnFailure ==
    [][\A s \in {t \in Sessions : Mounted(t)} :
          /\ OpenCartPage(s) =>
                ViewIds(cartItems'[s]) =
                   {id \in RecordsOf(SessionUser[s], FALSE) : ItemExists(id)}
          /\ (OpenCheckoutPage(s) /\ page'[s] = "checkout") =>
                ViewIds(cartItems'[s]) =
                   {id \in RecordsOf(SessionUser[s], FALSE) :
                      checkouts[id].last_step = "payment" /\ ItemExists(id)}
          /\ OpenProfilePage(s) =>
                \A o \in orders'[s] :
                   LET ids == AscendingSeq({id \in CompletedOn(SessionUser[s], o.date) :
                                              ItemExists(id)})
                   IN  /\ Len(o.items) = Len(ids)
                       /\ \A k \in 1..Len(ids) :
                             o.items[k].id = checkouts[ids[k]].item_id
          /\ cartItems'[s] # {} =>
                \A r \in DOMAIN checkouts \cup {QueryRequest} :
                   ~OpenCartPageFails(s, {r}) /\ ~OpenCheckoutPageFails(s, {r})
          /\ orders'[s] # {} =>
                \A r \in DOMAIN checkouts \cup {QueryRequest} :
                   ~OpenProfilePageFails(s, {r})]_vars

\* the cart page shows one line item of a cart of two: the item of the other
\* one has been deleted
C19_Witness ==
    \E s \in Sessions : \E a, b \in RecordsOf(SessionUser[s], FALSE) :
        /\ page[s] = "cart"
        /\ ~ItemExists(a)
        /\ ItemExists(b)
        /\ ViewIds(cartItems[s]) = {b}

\* C17: listItems (getAllItems) never throws the store's failed-precondition
\* (missing composite index) error to its caller.
C17_IndexErrorNeverSurfaces ==
    ~(/\ svc.op = "getAllItems"
      /\ svc.phase = "thrown"
      /\ svc.error = "failed-precondition")

StartsWith(name, prefix) ==
    /\ Len(name) >= Len(prefix)
    /\ SubSeq(name, 1, Len(prefix)) = prefix

\* C20: searchItems(prefix, limit) returns at most limit items in ascending
\* order of name, each of whose names starts with the prefix, and every item
\* whose name starts with the prefix (the prefix itself included) is returned
\* as long as the limit leaves room.
C20_SearchReturnsPrefixMatches ==
    (svc.op = "searchItems" /\ svc.phase = "returned") =>
        LET r == svc.value
            matching == {i \in ItemIds : StartsWith(itemNames[i], svc.query)}
        IN  /\ Len(r) <= svc.limit
            /\ \A k \in 1..(Len(r) - 1) : StringLeq(itemNames[r[k]], itemNames[r[k + 1]])
            /\ \A k \in 1..Len(r) : r[k] \in matching
            /\ Len(r) < svc.limit => matching \subseteq Range(r)

\* C21: in every reachable state the last_step of every checkout record is one
\* of added_to_cart, payment and completed, whichever storefront or admin
\* operations have been applied to it.
C21_LastStepInDomain ==
    \A id \in DOMAIN checkouts :
        checkouts[id].last_step \in {"added_to_cart", "payment", "completed"}

AwaitingPayment(id) ==
    /\ id \in DOMAIN checkouts
    /\ checkouts[id].last_step = "payment"
    /\ ~checkouts[id].is_done

\* a store write of updateCheckoutStep(id, "payment") is applied: issued by a
\* proceed-to-checkout batch that is still awaited, or by one that has
\* already been reported as failed
PaymentStepApplied(id) ==
    \/ \E s \in Sessions : page[s] = "cart" /\ UpdateResolves(s, id)
    \/ OrphanResolves([id |-> id, op |-> "payment"])

\* C22: updateCheckoutStep(id, "payment") applied to a line item that is
\* already awaiting payment changes nothing but updatedAt: the record keeps its
\* last_step, is_done, quantity, user and item, and no other record changes.
C22_ReissuedPaymentStepIsNoOp ==
    [][\A id \in CheckoutIds :
          (AwaitingPayment(id) /\ PaymentStepApplied(id)) =>
              /\ DOMAIN checkouts' = DOMAIN checkouts
              /\ checkouts'[id] = [checkouts[id] EXCEPT !.updatedAt = now]
              /\ \A other \in DOMAIN checkouts \ {id} : checkouts'[other] = checkouts[other]]_vars

\* a proceed-to-checkout batch has been issued over a line item that an
\* earlier batch already moved to payment, together with one it did not
C22_Witness ==
    /\ page["s1"] = "cart"
    /\ batch["s1"] = "running"
    /\ orphans = {}
    /\ awaiting["s1"] = {1, 2}
    /\ AwaitingPayment(1)
    /\ checkouts[2].last_step = "added_to_cart"

\* ================================================== claims on the items page
\* the requests whose response will still be applied
LiveFetches(st) == {f \in st.fetches : f.isMounted}

ForwardClick ==
    \/ LoadNextPage
    \/ \E target \in PageLinks : target > itemsPage.currentPage /\ GoToPage(target)

BackwardClick ==
    \/ LoadPreviousPage
    \/ \E target \in PageLinks : target <= itemsPage.currentPage /\ GoToPage(target)

RequestedForCurrent(f, st) ==
    /\ f.category = st.selectedCategory
    /\ f.sortBy = st.sortBy
    /\ f.page = st.currentPage

Displayed(st) == <<st.items, st.lastVisible, st.hasMore>>

\* C27: the response of a listing request changes items, lastVisible or hasMore
\* only if the request was made for the current selectedCategory, sortBy and
\* currentPage, in whatever order responses arrive; at most one request in
\* flight is still to be applied, it is for the current triple and has no
\* cursor when it is for page 1; a change of category or sort leaves exactly
\* one such request, for page 1 without cursor.
C27_OnlyCurrentRequestApplied ==
    /\ [](itemsPage.mounted =>
            /\ Cardinality(LiveFetches(itemsPage)) <= 1
            /\ \A f \in LiveFetches(itemsPage) :
                  /\ RequestedForCurrent(f, itemsPage)
                  /\ f.page = 1 => f.cursor = NoCursor)
    /\ [][/\ \A f \in itemsPage.fetches :
                (FetchItemsResponds(f) /\ ~RequestedForCurrent(f, itemsPage))
                    => Displayed(itemsPage') = Displayed(itemsPage)
          /\ <<itemsPage'.selectedCategory, itemsPage'.sortBy>>
                 # <<itemsPage.selectedCategory, itemsPage.sortBy>>
                => /\ itemsPage'.currentPage = 1
                   /\ \E f \in itemsPage'.fetches :
                         /\ LiveFetches(itemsPage') = {f}
                         /\ f.page = 1
                         /\ f.cursor = NoCursor]_vars

\* the result for the new order has been applied while the superseded request
\* for page 2 of the old order is still in flight
C27_Witness ==
    /\ itemsPage.mounted
    /\ itemsPage.items # << >>
    /\ LiveFetches(itemsPage) = {}
    /\ RequestedForCurrent(itemsPage.applied, itemsPage)
    /\ itemsPage.applied.cursor = NoCursor
    /\ \E f \in itemsPage.fetches :
          /\ f.sortBy # itemsPage.sortBy
          /\ f.page = 2
          /\ f.cursor # NoCursor

\* pages 1..n of the listing of a category (or of all items) in an order
PagesUpTo(categoryId, sortBy, n) ==
    Slice(GetAllItems(categoryId, sortBy, MaxItems, NoCursor).items, 0, n * ITEMS_PER_PAGE)

\* the request continues pages 1..n-1 of its listing: they were displayed when
\* it was made and its cursor is their last item
InSequence(f) ==
    /\ f.base = PagesUpTo(f.category, f.sortBy, f.page - 1)
    /\ f.cursor = IF f.page = 1 THEN NoCursor ELSE Last(f.base)
    /\ f.page > 1 => f.base # << >>

\* C28: once the result for page n of a listing has been applied on top of
\* pages 1..n-1, the displayed items are pages 1..n of that listing, and a
\* result for a page after the first never leaves fewer items displayed than
\* before (the list is not cleared when the last page was full).
C28_DisplayedIsPagesOneToN ==
    [][\A f \in LiveFetches(itemsPage) :
          (InSequence(f) /\ FetchItemsResponds(f)) =>
              /\ itemsPage'.items = PagesUpTo(f.category, f.sortBy, f.page)
              /\ (f.page > 1 /\ itemsPage.items # << >>)
                    => Len(itemsPage'.items) >= Len(itemsPage.items)]_vars

C26_ChildrenOnlyForRoot ==
    ChildrenRendered(auth) =>
        /\ auth.user # NoUser
        /\ "root" \in UserRoles[auth.user]

\* C30: userData is null whenever user is null, and a non-null userData
\* carries the uid of the current user.
C30_UserDataOfCurrentUser ==
    auth.mounted =>
        /\ auth.user = NoUser => auth.userData = NoUserData
        /\ auth.userData # NoUserData => auth.userData.uid = auth.user

\* ===================================== claims on the admin categories page
\* C24: a category that has an item or a subcategory is not deleted by
\* handleDeleteCategory, also when the item or subcategory is created while
\* the delete is in progress.
C24_CategoryInUseNotDeleted ==
    [][\A id \in DOMAIN categories.docs :
          id \notin DOMAIN categories'.docs
              => ItemsOfCategory(id) = {} /\ Subcategories(id) = {}]_vars

\* C25: when onSubmit reports success on the checkout page, every record of
\* the signed-in user that was awaiting payment when the page loaded is
\* completed: none of the user's records is left with is_done false and
\* last_step "payment" (the session is the only writer of its user's records
\* in this specification, so a record awaiting payment at the success was
\* awaiting payment at the load)
C25_SuccessCompletesLoadedRecords ==
    [][\A s \in Sessions :
          (batch'[s] = "success" /\ batch[s] # "success" /\ page[s] = "checkout")
              => PaymentCheckouts(checkouts', SessionUser[s]) = {}]_vars

====
